---- MODULE Spec2Model ----
(***************************************************************************)
(* Request broker of the eassi gateway backend.                            *)
(*                                                                         *)
(* RequestsService (src/src/requests/requests.service.ts) authenticates    *)
(* signed request tokens, persists issue / verify requests and looks them  *)
(* up by their type-tagged requestId.  VerifyController                    *)
(* (src/unnamed/part_000) exposes the verify surface: token acceptance,    *)
(* connector dispatch and disclosure handling with notification.           *)
(*                                                                         *)
(* A JWT is modelled symbolically: a well-formed token is its payload      *)
(* together with the key its signature was produced with; the HMAC check   *)
(* of verify() succeeds exactly when that key is the secret it is given.   *)
(* Strings that the code splits (requestIds) are sequences of atoms.       *)
(*                                                                         *)
(* Each handler is one action.  A handler leaves its outcome in            *)
(* `response`; Respond hands the outcome to the caller and makes the       *)
(* service ready for the next call.                                        *)
(***************************************************************************)
EXTENDS Integers, Sequences, FiniteSets, TLC

VARIABLES
    verifyRequests,   \* rows of verifyRequestsRepository
    issueRequests,    \* rows of issueRequestsRepository
    now,              \* wall clock, in seconds
    response,         \* outcome of the handler that ran last, or Idle
    flows,            \* decodeVerifyRequestToken calls in flight, by caller
    disclosure        \* the handleCredentialVerifyDisclosure call in flight

vars == <<verifyRequests, issueRequests, now, response, flows, disclosure>>

----------------------------------------------------------------------------
(* Bounds *)

\* total number of request rows the two repositories may hold
MaxRequests == 2

\* const JWT_MAX_AGE = '300s'
JWT_MAX_AGE == 300

\* tokens are issued at IssuedAt; the clock runs over the second before the
\* age limit, the limit itself and the second after it
IssuedAt  == 0
StartTime == IssuedAt + JWT_MAX_AGE - 1
MaxNow    == IssuedAt + JWT_MAX_AGE + 1

----------------------------------------------------------------------------
(* Fixed data: the rows of the read-only repositories *)

Null == [null |-> TRUE]

\* organizationsRepository: Organization rows (uuid, sharedSecret)
Organizations ==
    { [uuid |-> "orgA", sharedSecret |-> "sA"],
      [uuid |-> "orgB", sharedSecret |-> "sB"] }

\* typesRepository: CredentialType rows, each owned by one organization
CredentialTypes ==
    { [organization |-> "orgA", type |-> "passport"],
      [organization |-> "orgB", type |-> "diploma"] }

\* uuids the store may generate for a new row
UUIDs == {"u1", "u2"}

----------------------------------------------------------------------------
(* Inputs *)

Issuers      == {"orgA", "orgB", "orgX", ""}     \* "" : iss missing or empty
SigningKeys  == {"sA", "sB", "sEve"}
TypeNames    == {"passport", "diploma", "visa"}
CallbackUrls == {"https://a.example/cb", "https://b.example/cb"}
IssueData    == {"d1", "d2"}
NoData       == "no-data"

VerifyPayloads ==
    [iss : Issuers, iat : {IssuedAt}, type : TypeNames,
     callbackUrl : CallbackUrls, data : {NoData}]

IssuePayloads ==
    [iss : Issuers, iat : {IssuedAt}, type : TypeNames,
     callbackUrl : CallbackUrls, data : IssueData]

\* jsonwebtoken sign(payload, secret)
Sign(payload, secret) ==
    [wellFormed |-> TRUE, payload |-> payload, key |-> secret]

\* a string that is no JWT at all
Garbage == [wellFormed |-> FALSE, payload |-> Null, key |-> ""]

VerifyTokens ==
    {Garbage} \cup {Sign(p, k) : p \in VerifyPayloads, k \in SigningKeys}

IssueTokens ==
    {Garbage} \cup {Sign(p, k) : p \in IssuePayloads, k \in SigningKeys}

\* tokens an organization signs itself for a type it owns
OwnTokens(payloads) ==
    UNION { { Sign(p, o.sharedSecret) :
                p \in {q \in payloads :
                          /\ q.iss = o.uuid
                          /\ \E t \in CredentialTypes :
                                t.organization = o.uuid /\ t.type = q.type} } :
            o \in Organizations }

\* requestId strings: segments joined by ":".  One and two segments of any
\* kind; three segments behind a known tag
Segments ==
    { <<>>, <<"verify">>, <<"issue">>, <<"bogus">>, <<"u1">>, <<"u2">> }

RequestIds ==
    Segments
      \cup {a \o <<":">> \o b : a \in Segments, b \in Segments}
      \cup {a \o <<":">> \o b \o <<":">> \o c :
               a \in {<<"verify">>, <<"issue">>},
               b \in {<<>>, <<"u1">>, <<"u2">>}, c \in Segments}

\* requestIds the connector endpoints are called with
LinkIds == {<<t, ":", u>> : t \in {"verify", "issue", "bogus"}, u \in UUIDs}

ConnectorNames == {"demo", "nope"}

----------------------------------------------------------------------------
(* Results of calls *)

Return(v)   == [ok |-> TRUE, error |-> "", message |-> "", logged |-> "",
                value |-> v]
Throw(e, m) == [ok |-> FALSE, error |-> e, message |-> m, logged |-> "",
                value |-> Null]

Idle == [op |-> "idle"]

----------------------------------------------------------------------------
(* RequestsService.decodeAndVerifyJwt *)

\* jsonwebtoken decode(jwt, {json: true}): the payload, unverified, or null
decode(jwt) == IF jwt.wellFormed THEN jwt.payload ELSE Null

\* verify() that never compares the signature with the secret
verifyAnySignature(jwt, secret, maxAge) ==
    IF ~jwt.wellFormed
      THEN Throw("JsonWebTokenError", "jwt malformed")
    ELSE IF now >= jwt.payload.iat + maxAge
      THEN Throw("TokenExpiredError", "maxAge exceeded")
    ELSE Return(jwt.payload)

\* verify() called without the maxAge option
verifyWithoutMaxAge(jwt, secret, maxAge) ==
    IF ~jwt.wellFormed
      THEN Throw("JsonWebTokenError", "jwt malformed")
    ELSE IF jwt.key # secret
      THEN Throw("JsonWebTokenError", "invalid signature")
    ELSE Return(jwt.payload)

\* jsonwebtoken verify(jwt, secret, {maxAge}): the signature is checked
\* first, the age after it; a token is too old once now >= iat + maxAge
verify(jwt, secret, maxAge) ==
    IF ~jwt.wellFormed
      THEN Throw("JsonWebTokenError", "jwt malformed")
    ELSE IF jwt.key # secret
      THEN Throw("JsonWebTokenError", "invalid signature")
    ELSE IF now >= jwt.payload.iat + maxAge
      THEN Throw("TokenExpiredError", "maxAge exceeded")
    ELSE Return(jwt.payload)

\* organizationsRepository.findOneOrFail({ uuid })
findOrganizationOrFail(uuid) ==
    IF \E o \in Organizations : o.uuid = uuid
      THEN Return(CHOOSE o \in Organizations : o.uuid = uuid)
      ELSE Throw("EntityNotFound", "Could not find any entity of type Organization")

\* a catch block that passes the cause on in the message it throws
InvalidRequestJWTWithCause(e) ==
    [ok |-> FALSE, error |-> "InvalidRequestJWT",
     message |-> "Could not decode request JWT: " \o e.message,
     logged |-> e.error \o ": " \o e.message, value |-> Null]

\* the catch block: log the raw error, throw the generic one
InvalidRequestJWT(e) ==
    [ok |-> FALSE, error |-> "InvalidRequestJWT",
     message |-> "Could not decode request JWT",
     logged |-> e.error \o ": " \o e.message, value |-> Null]

\* decodeAndVerifyJwt without its try/catch: every error leaves as it is
decodeAndVerifyJwtUncaught(jwt) ==
    LET decoded == decode(jwt) IN
    IF decoded = Null \/ decoded.iss = ""
      THEN Throw("Error", "Could not decode issuer")
    ELSE LET org == findOrganizationOrFail(decoded.iss) IN
    IF ~org.ok
      THEN org
    ELSE LET request == verify(jwt, org.value.sharedSecret, JWT_MAX_AGE) IN
    IF ~request.ok
      THEN request
    ELSE Return([request |-> request.value, requestor |-> org.value])

decodeAndVerifyJwt(jwt) ==
    LET decoded == decode(jwt) IN
    IF decoded = Null \/ decoded.iss = ""
      THEN InvalidRequestJWT(Throw("Error", "Could not decode issuer"))
    ELSE LET org == findOrganizationOrFail(decoded.iss) IN
    IF ~org.ok
      THEN InvalidRequestJWT(org)
    ELSE LET request == verify(jwt, org.value.sharedSecret, JWT_MAX_AGE) IN
    IF ~request.ok
      THEN InvalidRequestJWT(request)
    ELSE Return([request |-> request.value, requestor |-> org.value])

----------------------------------------------------------------------------
(* RequestsService.decodeVerifyRequestToken / decodeIssueRequestToken *)

\* a type lookup by name alone, whoever owns the type
findTypeOrFailByName(requestor, typeName) ==
    LET found == {t \in CredentialTypes : t.type = typeName} IN
    IF found # {}
      THEN Return(CHOOSE t \in found : TRUE)
      ELSE Throw("EntityNotFound", "Could not find any entity of type CredentialType")

\* typesRepository.findOneOrFail({ organization: requestor, type })
findTypeOrFail(requestor, typeName) ==
    LET found == {t \in CredentialTypes :
                     t.organization = requestor.uuid /\ t.type = typeName} IN
    IF found # {}
      THEN Return(CHOOSE t \in found : TRUE)
      ELSE Throw("EntityNotFound", "Could not find any entity of type CredentialType")

\* decodeVerifyRequestToken that answers a token it has a row for with that
\* row instead of saving another
decodeVerifyRequestTokenOnce(jwt, uuid) ==
    LET verified == decodeAndVerifyJwt(jwt) IN
    IF ~verified.ok THEN [result |-> verified, saved |-> {}]
    ELSE LET type == findTypeOrFail(verified.value.requestor,
                                    verified.value.request.type) IN
    IF ~type.ok THEN [result |-> type, saved |-> {}]
    ELSE LET same == {r \in verifyRequests :
                         /\ r.requestor = verified.value.requestor
                         /\ r.type = type.value
                         /\ r.callbackUrl = verified.value.request.callbackUrl}
             verifyRequest ==
                 [uuid        |-> uuid,
                  requestor   |-> verified.value.requestor,
                  type        |-> type.value,
                  callbackUrl |-> verified.value.request.callbackUrl] IN
         IF same # {}
           THEN [result |-> Return(CHOOSE r \in same : TRUE), saved |-> {}]
           ELSE [result |-> Return(verifyRequest), saved |-> {verifyRequest}]

\* decodeVerifyRequestToken with the uuid that save() generates: what the
\* call returns or throws, and the rows it has saved by then
decodeVerifyRequestToken(jwt, uuid) ==
    LET verified == decodeAndVerifyJwt(jwt) IN
    IF ~verified.ok THEN [result |-> verified, saved |-> {}]
    ELSE LET type == findTypeOrFail(verified.value.requestor,
                                    verified.value.request.type) IN
    IF ~type.ok THEN [result |-> type, saved |-> {}]
    ELSE LET verifyRequest ==
                 [uuid        |-> uuid,
                  requestor   |-> verified.value.requestor,
                  type        |-> type.value,
                  callbackUrl |-> verified.value.request.callbackUrl] IN
         [result |-> Return(verifyRequest), saved |-> {verifyRequest}]

\* decodeIssueRequestToken that saves the row before it resolves the type
decodeIssueRequestTokenSaveFirst(jwt, uuid) ==
    LET verified == decodeAndVerifyJwt(jwt) IN
    IF ~verified.ok THEN [result |-> verified, saved |-> {}]
    ELSE LET type == findTypeOrFail(verified.value.requestor,
                                    verified.value.request.type)
             issueRequest ==
                 [uuid        |-> uuid,
                  requestor   |-> verified.value.requestor,
                  type        |-> type.value,
                  callbackUrl |-> verified.value.request.callbackUrl,
                  data        |-> verified.value.request.data] IN
         [result |-> IF type.ok THEN Return(issueRequest) ELSE type,
          saved  |-> {issueRequest}]

\* decodeIssueRequestToken that does not copy the payload's data
decodeIssueRequestTokenWithoutData(jwt, uuid) ==
    LET verified == decodeAndVerifyJwt(jwt) IN
    IF ~verified.ok THEN [result |-> verified, saved |-> {}]
    ELSE LET type == findTypeOrFail(verified.value.requestor,
                                    verified.value.request.type) IN
    IF ~type.ok THEN [result |-> type, saved |-> {}]
    ELSE LET issueRequest ==
                 [uuid        |-> uuid,
                  requestor   |-> verified.value.requestor,
                  type        |-> type.value,
                  callbackUrl |-> verified.value.request.callbackUrl,
                  data        |-> NoData] IN
         [result |-> Return(issueRequest), saved |-> {issueRequest}]

decodeIssueRequestToken(jwt, uuid) ==
    LET verified == decodeAndVerifyJwt(jwt) IN
    IF ~verified.ok THEN [result |-> verified, saved |-> {}]
    ELSE LET type == findTypeOrFail(verified.value.requestor,
                                    verified.value.request.type) IN
    IF ~type.ok THEN [result |-> type, saved |-> {}]
    ELSE LET issueRequest ==
                 [uuid        |-> uuid,
                  requestor   |-> verified.value.requestor,
                  type        |-> type.value,
                  callbackUrl |-> verified.value.request.callbackUrl,
                  data        |-> verified.value.request.data] IN
         [result |-> Return(issueRequest), saved |-> {issueRequest}]

\* a save() that replaces the requestor's earlier rows by the new one
saveLatestOfRequestor(rows, saved) ==
    {r \in rows : \A n \in saved : r.requestor # n.requestor} \cup saved

\* repository.save(row) of a new row: the table gains the row
save(rows, saved) == rows \cup saved

\* a generated uuid is new in its own table; the model holds MaxRequests rows
CanSave(rows, uuid) ==
    /\ \A r \in rows : r.uuid # uuid
    /\ Cardinality(verifyRequests) + Cardinality(issueRequests) < MaxRequests

----------------------------------------------------------------------------
(* RequestsService: lookups *)

\* position of the first sep in s, 0 when there is none
IndexOf(s, sep) ==
    IF \E i \in 1..Len(s) : s[i] = sep
      THEN CHOOSE i \in 1..Len(s) :
             s[i] = sep /\ \A j \in 1..(i - 1) : s[j] # sep
      ELSE 0

\* String.prototype.split(sep): every segment between separators
RECURSIVE split(_, _)
split(s, sep) ==
    LET i == IndexOf(s, sep) IN
    IF i = 0 THEN <<s>>
    ELSE <<SubSeq(s, 1, i - 1)>> \o split(SubSeq(s, i + 1, Len(s)), sep)

\* const [type, uuid] = parts: a missing element is undefined
Undefined == <<"undefined">>
Element(parts, i) == IF i <= Len(parts) THEN parts[i] ELSE Undefined

\* !x for a string or undefined
Not(x) == x = Undefined \/ x = <<>>

\* findOneOrFail in place of findOne: a missing row is an error
findOneOrFail(rows, uuid) ==
    IF \E r \in rows : <<r.uuid>> = uuid
      THEN Return(CHOOSE r \in rows : <<r.uuid>> = uuid)
      ELSE Throw("EntityNotFound", "Could not find any entity")

\* repository.findOne({ uuid }): the row, or undefined when there is none
findOne(rows, uuid) ==
    IF \E r \in rows : <<r.uuid>> = uuid
      THEN Return(CHOOSE r \in rows : <<r.uuid>> = uuid)
      ELSE Return(Null)

findVerifyRequestByIdentifier(uuid) == findOne(verifyRequests, uuid)

findIssueRequestByIdentifier(uuid) == findOne(issueRequests, uuid)

\* a verify lookup that takes the last segment for the uuid
findVerifyRequestByRequestIdLastSegment(requestId) ==
    LET parts == split(requestId, ":")
        type  == Element(parts, 1)
        uuid  == IF Len(parts) >= 2 THEN parts[Len(parts)] ELSE Undefined IN
    IF type # <<"verify">> \/ Not(uuid)
      THEN Return(Null)
      ELSE findVerifyRequestByIdentifier(uuid)

findVerifyRequestByRequestId(requestId) ==
    LET parts == split(requestId, ":")
        type  == Element(parts, 1)
        uuid  == Element(parts, 2) IN
    IF type # <<"verify">> \/ Not(uuid)
      THEN Return(Null)
      ELSE findVerifyRequestByIdentifier(uuid)

findIssueRequestByRequestId(requestId) ==
    LET parts == split(requestId, ":")
        type  == Element(parts, 1)
        uuid  == Element(parts, 2) IN
    IF type # <<"issue">> \/ Not(uuid)
      THEN Return(Null)
      ELSE findIssueRequestByIdentifier(uuid)

\* a lookup that falls back to the other store when the tagged one has no row
findRequestByRequestIdAnyStore(requestId) ==
    LET parts == split(requestId, ":")
        type  == Element(parts, 1)
        uuid  == Element(parts, 2)
        v     == findVerifyRequestByIdentifier(uuid)
        i     == findIssueRequestByIdentifier(uuid) IN
    IF Not(type) \/ Not(uuid) THEN Return(Null)
    ELSE IF type = <<"verify">> THEN (IF v.value # Null THEN v ELSE i)
    ELSE IF type = <<"issue">> THEN (IF i.value # Null THEN i ELSE v)
    ELSE Return(Null)

findRequestByRequestId(requestId) ==
    LET parts == split(requestId, ":")
        type  == Element(parts, 1)
        uuid  == Element(parts, 2) IN
    IF Not(type) \/ Not(uuid) THEN Return(Null)
    ELSE IF type = <<"verify">> THEN findVerifyRequestByIdentifier(uuid)
    ELSE IF type = <<"issue">> THEN findIssueRequestByIdentifier(uuid)
    ELSE Return(Null)

----------------------------------------------------------------------------
(* Collaborators of VerifyController that the controller only calls *)

\* Request.requestId: "<requestType>:<uuid>"
requestId(requestType, row) == <<requestType, ":", row.uuid>>

\* ConnectorsService: the registered connectors
Connectors == {"demo"}

\* GetConnectorPipe: the connector of that name, or a rejection
GetConnectorPipe(name) ==
    IF name \in Connectors
      THEN Return(name)
      ELSE Throw("NotFoundException", "connector not found")

\* GetVerifyRequestPipe: the verify request of that requestId, or a rejection
GetVerifyRequestPipe(id) ==
    LET found == findVerifyRequestByRequestId(id) IN
    IF found.ok /\ found.value # Null
      THEN found
      ELSE Throw("NotFoundException", "verify request not found")

\* ConnectorsService.availableVerifyConnectors: names in registration order
availableVerifyConnectors(verifyRequest) == <<"demo">>

\* what a connector's step may do: return its data, or fail
ConnectorOutcomes ==
    { Return("Alice"), Throw("ConnectorError", "disclosure rejected") }

\* RequestsService.encodeVerifyRequestResponse: the broker-signed outcome
encodeVerifyRequestResponse(verifyRequest, status, connectorName, data) ==
    [requestId |-> requestId("verify", verifyRequest), status |-> status,
     connector |-> connectorName, data |-> data, key |-> "broker"]

\* RequestsGateway.sendRedirectResponse: the message pushed to the session
sendRedirectResponse(id, status, redirectUrl) ==
    [requestId |-> id, status |-> status, redirectUrl |-> redirectUrl]

\* a notification addressed to the bare uuid instead of the requestId
disclosureNotificationByUuid(verifyRequest, connectorName, data) ==
    sendRedirectResponse(
        <<verifyRequest.uuid>>,
        "success",
        << verifyRequest.callbackUrl,
           encodeVerifyRequestResponse(verifyRequest, "success",
                                       connectorName, data) >>)

\* the end of handleCredentialVerifyDisclosure: the outcome token is encoded
\* and sent to verifyRequest.requestId with `${callbackUrl}${responseToken}`,
\* the concatenation kept as the pair of its two parts
disclosureNotification(verifyRequest, connectorName, data) ==
    sendRedirectResponse(
        requestId("verify", verifyRequest),
        "success",
        << verifyRequest.callbackUrl,
           encodeVerifyRequestResponse(verifyRequest, "success",
                                       connectorName, data) >>)

\* a handler that lists the connectors whatever the pipe made of the token
receiveCredentialVerifyRequestUnguarded(result) ==
    [connectorsQueried   |-> TRUE,
     availableConnectors |-> availableVerifyConnectors(result.value)]

\* receiveCredentialVerifyRequest behind DecodeVerifyRequestPipe: the handler
\* body runs, and asks for the connectors, only with the request the pipe
\* returned
receiveCredentialVerifyRequest(result) ==
    IF result.ok
      THEN [connectorsQueried   |-> TRUE,
            availableConnectors |-> availableVerifyConnectors(result.value)]
      ELSE [connectorsQueried |-> FALSE, availableConnectors |-> <<>>]

----------------------------------------------------------------------------
(* decodeVerifyRequestToken, one step per await *)

\* callers that may have a decodeVerifyRequestToken call in flight
Flows == {"f1", "f2"}

\* tokens the concurrent callers send: every issuer with either type, signed
\* with either organization's secret, and a string that is no JWT
FlowTokens ==
    {Garbage} \cup
    {t \in VerifyTokens :
        /\ t.wellFormed
        /\ t.payload.iss \in {"orgA", "orgB", "orgX"}
        /\ t.payload.type \in {"passport", "diploma"}
        /\ t.payload.callbackUrl = "https://a.example/cb"
        /\ t.key \in {"sA", "sB"}}

\* the locals of a call that has not started
IdleFlow ==
    [pc |-> "idle", jwt |-> Null, decoded |-> Null, requestor |-> Null,
     request |-> Null, type |-> Null, verifyRequest |-> Null,
     verifiedAt |-> 0, result |-> Null]

\* decodeAndVerifyJwt up to its first await: decode, the issuer check, and
\* the call of organizationsRepository.findOneOrFail
startDecodeVerifyRequestToken(jwt) ==
    LET decoded == decode(jwt) IN
    IF decoded = Null \/ decoded.iss = ""
      THEN [IdleFlow EXCEPT
              !.pc = "done", !.jwt = jwt,
              !.result = InvalidRequestJWT(Throw("Error", "Could not decode issuer"))]
      ELSE [IdleFlow EXCEPT
              !.pc = "awaitOrganization", !.jwt = jwt, !.decoded = decoded]

\* a continuation that takes the decoded payload for the request without
\* calling verify
resumeWithOrganizationUnverified(fl) ==
    LET org == findOrganizationOrFail(fl.decoded.iss) IN
    IF ~org.ok
      THEN [fl EXCEPT !.pc = "done", !.result = InvalidRequestJWT(org)]
      ELSE [fl EXCEPT !.pc = "awaitType", !.requestor = org.value,
                      !.request = fl.decoded, !.verifiedAt = now]

\* the organization lookup settles: verify with its secret, return
\* { request, requestor }, and call typesRepository.findOneOrFail
resumeWithOrganization(fl) ==
    LET org == findOrganizationOrFail(fl.decoded.iss) IN
    IF ~org.ok
      THEN [fl EXCEPT !.pc = "done", !.result = InvalidRequestJWT(org)]
    ELSE LET request == verify(fl.jwt, org.value.sharedSecret, JWT_MAX_AGE) IN
    IF ~request.ok
      THEN [fl EXCEPT !.pc = "done", !.result = InvalidRequestJWT(request)]
      ELSE [fl EXCEPT !.pc = "awaitType", !.requestor = org.value,
                      !.request = request.value, !.verifiedAt = now]

\* a continuation that builds the entity with the requestor of whichever
\* call holds one, as a field of the service shared by the calls would
resumeWithTypeSharedRequestor(fl) ==
    LET type   == findTypeOrFail(fl.requestor, fl.request.type)
        shared == flows[CHOOSE g \in Flows : flows[g].requestor # Null] IN
    IF ~type.ok
      THEN [fl EXCEPT !.pc = "done", !.result = type]
      ELSE [fl EXCEPT
              !.pc = "awaitSave", !.type = type.value,
              !.verifyRequest =
                  [requestor   |-> shared.requestor,
                   type        |-> type.value,
                   callbackUrl |-> fl.request.callbackUrl]]

\* the type lookup settles: build the CredentialVerifyRequest and call save
resumeWithType(fl) ==
    LET type == findTypeOrFail(fl.requestor, fl.request.type) IN
    IF ~type.ok
      THEN [fl EXCEPT !.pc = "done", !.result = type]
      ELSE [fl EXCEPT
              !.pc = "awaitSave", !.type = type.value,
              !.verifyRequest =
                  [requestor   |-> fl.requestor,
                   type        |-> type.value,
                   callbackUrl |-> fl.request.callbackUrl]]

\* save settles: the entity comes back with its generated uuid
resumeWithSaved(fl, uuid) ==
    [fl EXCEPT
       !.pc = "done",
       !.result = Return([uuid        |-> uuid,
                          requestor   |-> fl.verifyRequest.requestor,
                          type        |-> fl.verifyRequest.type,
                          callbackUrl |-> fl.verifyRequest.callbackUrl])]

----------------------------------------------------------------------------
(* handleCredentialVerifyDisclosure, one step per call it makes *)

\* the locals of a call that has not started
IdleDisclosure ==
    [pc |-> "idle", connector |-> "", requestId |-> <<>>,
     verifyRequest |-> Null, data |-> Null, token |-> Null, sent |-> <<>>,
     result |-> Null]

\* the request arrives: GetConnectorPipe resolves the connector, and
\* GetVerifyRequestPipe starts its lookup
beginDisclosure(name, id) ==
    LET connector == GetConnectorPipe(name) IN
    IF ~connector.ok
      THEN [IdleDisclosure EXCEPT !.pc = "failed", !.connector = name,
                                  !.requestId = id, !.result = connector]
      ELSE [IdleDisclosure EXCEPT !.pc = "lookup", !.connector = name,
                                  !.requestId = id]

\* a pipe that hands the handler whatever the lookup gave, null included
resolveVerifyRequestUnchecked(d) ==
    [d EXCEPT !.pc = "connector",
              !.verifyRequest = findVerifyRequestByRequestId(d.requestId).value]

\* GetVerifyRequestPipe settles: the handler body starts with the record and
\* calls the connector, or the request is rejected
resolveVerifyRequest(d) ==
    LET verifyRequest == GetVerifyRequestPipe(d.requestId) IN
    IF ~verifyRequest.ok
      THEN [d EXCEPT !.pc = "failed", !.result = verifyRequest]
      ELSE [d EXCEPT !.pc = "connector",
                     !.verifyRequest = verifyRequest.value]

\* await connectorService.handleVerifyCredentialDisclosure settles
connectorReturns(d, outcome) ==
    IF ~outcome.ok
      THEN [d EXCEPT !.pc = "failed", !.result = outcome]
      ELSE [d EXCEPT !.pc = "encode", !.data = outcome]

\* const responseToken = encodeVerifyRequestResponse(...)
encodeOutcome(d) ==
    [d EXCEPT !.pc = "notify",
              !.token = encodeVerifyRequestResponse(
                            d.verifyRequest, "success", d.connector,
                            d.data.value)]

\* this.gateway.sendRedirectResponse(...), and the handler returns
notify(d) ==
    [d EXCEPT !.pc = "done",
              !.sent = << sendRedirectResponse(
                              requestId("verify", d.verifyRequest),
                              "success",
                              << d.verifyRequest.callbackUrl, d.token >>) >>,
              !.result = Return(Null)]

----------------------------------------------------------------------------
(* Actions *)

Init ==
    /\ verifyRequests = {}
    /\ issueRequests = {}
    /\ now = StartTime
    /\ response = Idle
    /\ flows = [f \in Flows |-> IdleFlow]
    /\ disclosure = IdleDisclosure

\* the service method decodeIssueRequestToken, called with a token
DecodeIssueRequestToken(jwt) ==
    /\ response = Idle
    /\ \E uuid \in UUIDs :
         LET call == decodeIssueRequestToken(jwt, uuid) IN
         /\ call.saved # {} => CanSave(issueRequests, uuid)
         /\ issueRequests' = save(issueRequests, call.saved)
         /\ response' = [op |-> "decodeIssueRequestToken", jwt |-> jwt,
                         at |-> now, result |-> call.result]
    /\ UNCHANGED <<verifyRequests, now, flows, disclosure>>

\* GET /api/verify?token=: DecodeVerifyRequestPipe runs
\* decodeVerifyRequestToken, then the handler lists the connectors
ReceiveCredentialVerifyRequest(jwt) ==
    /\ response = Idle
    /\ \E uuid \in UUIDs :
         LET call == decodeVerifyRequestToken(jwt, uuid) IN
         /\ call.saved # {} => CanSave(verifyRequests, uuid)
         /\ verifyRequests' = save(verifyRequests, call.saved)
         /\ response' =
              [op |-> "receiveCredentialVerifyRequest", jwt |-> jwt,
               at |-> now, result |-> call.result,
               connectorsQueried |->
                   receiveCredentialVerifyRequest(call.result).connectorsQueried,
               availableConnectors |->
                   receiveCredentialVerifyRequest(call.result).availableConnectors]
    /\ UNCHANGED <<issueRequests, now, flows, disclosure>>

FindRequestByRequestId(id) ==
    /\ response = Idle
    /\ response' = [op |-> "findRequestByRequestId", requestId |-> id,
                    result |-> findRequestByRequestId(id)]
    /\ UNCHANGED <<verifyRequests, issueRequests, now, flows, disclosure>>

FindVerifyRequestByRequestId(id) ==
    /\ response = Idle
    /\ response' = [op |-> "findVerifyRequestByRequestId", requestId |-> id,
                    result |-> findVerifyRequestByRequestId(id)]
    /\ UNCHANGED <<verifyRequests, issueRequests, now, flows, disclosure>>

FindIssueRequestByRequestId(id) ==
    /\ response = Idle
    /\ response' = [op |-> "findIssueRequestByRequestId", requestId |-> id,
                    result |-> findIssueRequestByRequestId(id)]
    /\ UNCHANGED <<verifyRequests, issueRequests, now, flows, disclosure>>

\* GET /api/verify/:connector?verifyRequestId=
HandleCredentialVerifyRequest(name, id, outcome) ==
    /\ response = Idle
    /\ LET connector     == GetConnectorPipe(name)
           verifyRequest == GetVerifyRequestPipe(id)
           resolved      == connector.ok /\ verifyRequest.ok IN
       response' =
           [op |-> "handleCredentialVerifyRequest", connector |-> name,
            requestId |-> id,
            verifyRequest |-> verifyRequest.value,
            connectorCalled |-> resolved,
            result |-> IF ~connector.ok THEN connector
                       ELSE IF ~verifyRequest.ok THEN verifyRequest
                       ELSE outcome,
            sent |-> <<>>]
    /\ UNCHANGED <<verifyRequests, issueRequests, now, flows, disclosure>>

\* POST /api/verify/:connector/disclose?verifyRequestId=
HandleCredentialVerifyDisclosure(name, id, outcome) ==
    /\ response = Idle
    /\ LET connector     == GetConnectorPipe(name)
           verifyRequest == GetVerifyRequestPipe(id)
           resolved      == connector.ok /\ verifyRequest.ok
           data          == outcome IN
       response' =
           [op |-> "handleCredentialVerifyDisclosure", connector |-> name,
            requestId |-> id,
            verifyRequest |-> verifyRequest.value,
            connectorCalled |-> resolved,
            result |-> IF ~connector.ok THEN connector
                       ELSE IF ~verifyRequest.ok THEN verifyRequest
                       ELSE IF ~data.ok THEN data
                       ELSE Return(Null),
            sent |-> IF resolved /\ data.ok
                       THEN << disclosureNotification(
                                 verifyRequest.value, name, data.value) >>
                       ELSE <<>>]
    /\ UNCHANGED <<verifyRequests, issueRequests, now, flows, disclosure>>

Respond ==
    /\ response # Idle
    /\ response' = Idle
    /\ UNCHANGED <<verifyRequests, issueRequests, now, flows, disclosure>>

Tick ==
    /\ response = Idle
    /\ now < MaxNow
    /\ now' = now + 1
    /\ UNCHANGED <<verifyRequests, issueRequests, response, flows, disclosure>>

Next ==
    \/ \E jwt \in VerifyTokens : ReceiveCredentialVerifyRequest(jwt)
    \/ \E jwt \in IssueTokens : DecodeIssueRequestToken(jwt)
    \/ \E name \in ConnectorNames, id \in LinkIds, outcome \in ConnectorOutcomes :
          HandleCredentialVerifyRequest(name, id, outcome)
    \/ \E name \in ConnectorNames, id \in LinkIds, outcome \in ConnectorOutcomes :
          HandleCredentialVerifyDisclosure(name, id, outcome)
    \/ \E id \in LinkIds : FindRequestByRequestId(id)
    \/ \E id \in LinkIds : FindVerifyRequestByRequestId(id)
    \/ \E id \in LinkIds : FindIssueRequestByRequestId(id)
    \/ Respond
    \/ Tick

Spec == Init /\ [][Next]_vars

\* The lookups, over the stores that accepted tokens build
LookupNext ==
    \/ \E jwt \in OwnTokens(VerifyPayloads) : ReceiveCredentialVerifyRequest(jwt)
    \/ \E jwt \in OwnTokens(IssuePayloads) : DecodeIssueRequestToken(jwt)
    \/ \E id \in RequestIds : FindRequestByRequestId(id)
    \/ \E id \in RequestIds : FindVerifyRequestByRequestId(id)
    \/ \E id \in RequestIds : FindIssueRequestByRequestId(id)
    \/ Respond

LookupSpec == Init /\ [][LookupNext]_vars

----------------------------------------------------------------------------
(* Concurrent decodeVerifyRequestToken calls *)

StartDecodeVerifyRequestToken(f, jwt) ==
    /\ flows[f].pc = "idle"
    /\ flows' = [flows EXCEPT ![f] = startDecodeVerifyRequestToken(jwt)]
    /\ UNCHANGED <<verifyRequests, issueRequests, now, response, disclosure>>

ResumeWithOrganization(f) ==
    /\ flows[f].pc = "awaitOrganization"
    /\ flows' = [flows EXCEPT ![f] = resumeWithOrganization(flows[f])]
    /\ UNCHANGED <<verifyRequests, issueRequests, now, response, disclosure>>

ResumeWithType(f) ==
    /\ flows[f].pc = "awaitType"
    /\ flows' = [flows EXCEPT ![f] = resumeWithType(flows[f])]
    /\ UNCHANGED <<verifyRequests, issueRequests, now, response, disclosure>>

ResumeWithSaved(f) ==
    /\ flows[f].pc = "awaitSave"
    /\ \E uuid \in UUIDs :
         /\ CanSave(verifyRequests, uuid)
         /\ flows' = [flows EXCEPT ![f] = resumeWithSaved(flows[f], uuid)]
         /\ verifyRequests' =
                save(verifyRequests, {resumeWithSaved(flows[f], uuid).result.value})
    /\ UNCHANGED <<issueRequests, now, response, disclosure>>

\* the promise settles and the caller has the row or the error
FlowReturn(f) ==
    /\ flows[f].pc = "done"
    /\ flows' = [flows EXCEPT ![f] = IdleFlow]
    /\ UNCHANGED <<verifyRequests, issueRequests, now, response, disclosure>>

FlowNext ==
    \/ \E f \in Flows, jwt \in FlowTokens : StartDecodeVerifyRequestToken(f, jwt)
    \/ \E f \in Flows : ResumeWithOrganization(f)
    \/ \E f \in Flows : ResumeWithType(f)
    \/ \E f \in Flows : ResumeWithSaved(f)
    \/ \E f \in Flows : FlowReturn(f)
    \/ Tick

FlowSpec == Init /\ [][FlowNext]_vars

----------------------------------------------------------------------------
(* A disclosure call next to the creation of requests *)

BeginDisclosure(name, id) ==
    /\ disclosure.pc = "idle"
    /\ disclosure' = beginDisclosure(name, id)
    /\ UNCHANGED <<verifyRequests, issueRequests, now, response, flows>>

ResolveVerifyRequest ==
    /\ disclosure.pc = "lookup"
    /\ disclosure' = resolveVerifyRequest(disclosure)
    /\ UNCHANGED <<verifyRequests, issueRequests, now, response, flows>>

ConnectorReturns(outcome) ==
    /\ disclosure.pc = "connector"
    /\ disclosure' = connectorReturns(disclosure, outcome)
    /\ UNCHANGED <<verifyRequests, issueRequests, now, response, flows>>

EncodeOutcome ==
    /\ disclosure.pc = "encode"
    /\ disclosure' = encodeOutcome(disclosure)
    /\ UNCHANGED <<verifyRequests, issueRequests, now, response, flows>>

Notify ==
    /\ disclosure.pc = "notify"
    /\ disclosure' = notify(disclosure)
    /\ UNCHANGED <<verifyRequests, issueRequests, now, response, flows>>

\* the HTTP response of the disclosure call leaves
DisclosureReturn ==
    /\ disclosure.pc \in {"done", "failed"}
    /\ disclosure' = IdleDisclosure
    /\ UNCHANGED <<verifyRequests, issueRequests, now, response, flows>>

LifecycleNext ==
    \/ \E jwt \in OwnTokens(VerifyPayloads) : ReceiveCredentialVerifyRequest(jwt)
    \/ Respond
    \/ \E name \in ConnectorNames, id \in LinkIds : BeginDisclosure(name, id)
    \/ ResolveVerifyRequest
    \/ \E outcome \in ConnectorOutcomes : ConnectorReturns(outcome)
    \/ EncodeOutcome
    \/ Notify
    \/ DisclosureReturn

LifecycleSpec == Init /\ [][LifecycleNext]_vars

----------------------------------------------------------------------------
(* Properties *)

AcceptOps == {"receiveCredentialVerifyRequest", "decodeIssueRequestToken"}

IsAccept(r) == r.op \in AcceptOps

\* the token names an organization of the repository as its issuer
NamesKnownIssuer(jwt) ==
    jwt.wellFormed /\ \E o \in Organizations : o.uuid = jwt.payload.iss

\* the token's signature was made with the secret of the issuer it names
SignedByIssuer(jwt) ==
    jwt.wellFormed /\
    \E o \in Organizations :
        o.uuid = jwt.payload.iss /\ o.sharedSecret = jwt.key

\* the organization named by the token owns the type the token declares
DeclaresOwnType(jwt) ==
    jwt.wellFormed /\
    \E t \in CredentialTypes :
        t.organization = jwt.payload.iss /\ t.type = jwt.payload.type

\* age of the token when the call ran
Age(r) == r.at - r.jwt.payload.iat

\* the caller got the generic error of decodeAndVerifyJwt
RejectedAsInvalidJwt(r) ==
    /\ ~r.result.ok
    /\ r.result.error = "InvalidRequestJWT"
    /\ r.result.message = "Could not decode request JWT"

StoresUnchanged == UNCHANGED <<verifyRequests, issueRequests>>

\* signed with one organization's secret, naming another as issuer
CrossIssuerForgery(r) ==
    /\ IsAccept(r)
    /\ r.jwt.wellFormed
    /\ \E a \in Organizations, b \in Organizations :
          /\ a.sharedSecret # b.sharedSecret
          /\ r.jwt.key = a.sharedSecret
          /\ r.jwt.payload.iss = b.uuid

\* C1: a token signed with organization A's secret whose issuer claim is
\* organization B's uuid is rejected with the generic InvalidRequestJWT error
\* and the call persists no request.
C1_CrossIssuerForgeryRejected ==
    [][CrossIssuerForgery(response')
         => RejectedAsInvalidJwt(response') /\ StoresUnchanged]_vars

\* a forged token that is fresh and declares a type of the named issuer was
\* presented and rejected
C1_Witness ==
    /\ CrossIssuerForgery(response)
    /\ DeclaresOwnType(response.jwt)
    /\ Age(response) < JWT_MAX_AGE
    /\ RejectedAsInvalidJwt(response)

FailedAccept(r) == IsAccept(r) /\ ~r.result.ok

\* every stored row carries every field of a request
NoPartialRecord ==
    /\ \A r \in verifyRequests :
          /\ r.uuid \in UUIDs
          /\ r.requestor \in Organizations
          /\ r.type \in CredentialTypes
          /\ r.callbackUrl \in CallbackUrls
    /\ \A r \in issueRequests :
          /\ r.uuid \in UUIDs
          /\ r.requestor \in Organizations
          /\ r.type \in CredentialTypes
          /\ r.callbackUrl \in CallbackUrls
          /\ r.data \in IssueData

\* C2: whenever decodeVerifyRequestToken or decodeIssueRequestToken fails,
\* at whatever step, both request stores are as they were before the call,
\* and no stored row is ever partial.
C2_CreationAllOrNothing ==
    /\ [][FailedAccept(response') => StoresUnchanged]_vars
    /\ []NoPartialRecord

\* a call that authenticated its token failed at the last step before the
\* save, the type lookup, with rows already in the store
C2_Witness ==
    /\ FailedAccept(response)
    /\ response.result.error = "EntityNotFound"
    /\ verifyRequests # {}
    /\ issueRequests # {}

\* a disclosure call whose connector and verify request both resolved
DisclosureOnExistingRequest(r) ==
    r.op = "handleCredentialVerifyDisclosure" /\ r.connectorCalled

\* C3: every disclosure call on an existing verify request sends a
\* notification for that request's requestId, with a failure status when
\* the connector's disclosure-handling step failed.
C3_DisclosureAlwaysNotifies ==
    DisclosureOnExistingRequest(response) =>
        \E i \in 1..Len(response.sent) :
            /\ response.sent[i].requestId =
                   <<"verify", ":", response.verifyRequest.uuid>>
            /\ response.sent[i].status =
                   IF response.result.ok THEN "success" ELSE "failure"

\* a call with a token signed with the secret of the issuer it names
AuthenticTokenCall(r) == IsAccept(r) /\ SignedByIssuer(r.jwt)

\* C4: a correctly signed token of a known organization is rejected when it
\* is more than 300 seconds old and passes verification when it is 299
\* seconds old (and is then accepted if it declares a type of its issuer).
C4_FreshnessBoundary ==
    AuthenticTokenCall(response) =>
        /\ Age(response) > 300 => RejectedAsInvalidJwt(response)
        /\ Age(response) = 299 =>
              /\ response.result.error # "InvalidRequestJWT"
              /\ DeclaresOwnType(response.jwt) => response.result.ok

\* a correctly signed 301 seconds old token was rejected, after tokens were
\* accepted (rows exist) while they were 299 seconds old
C4_Witness ==
    /\ AuthenticTokenCall(response)
    /\ DeclaresOwnType(response.jwt)
    /\ Age(response) = 301
    /\ RejectedAsInvalidJwt(response)
    /\ \E r \in verifyRequests : r.requestor.uuid = response.jwt.payload.iss

\* a fresh token an organization signed itself for a type it owns
OwnFreshTokenCall(r) ==
    /\ AuthenticTokenCall(r)
    /\ DeclaresOwnType(r.jwt)
    /\ Age(r) < 300

\* C5: a fresh token signed by a known organization for a type it owns is
\* accepted, and the persisted request has the signing organization as
\* requestor, the payload's callbackUrl unchanged, the organization's type of
\* the declared name and, for issue requests, the payload's data verbatim.
C5_AcceptRoundTrip ==
    OwnFreshTokenCall(response) =>
        /\ response.result.ok
        /\ LET row == response.result.value
               P   == response.jwt.payload IN
           /\ row.requestor.uuid = P.iss
           /\ row.requestor.sharedSecret = response.jwt.key
           /\ row.callbackUrl = P.callbackUrl
           /\ row.type = [organization |-> P.iss, type |-> P.type]
           /\ response.op = "receiveCredentialVerifyRequest"
                 => row \in verifyRequests
           /\ response.op = "decodeIssueRequestToken"
                 => row.data = P.data /\ row \in issueRequests

\* an issue token of orgB was accepted and its row kept the payload's data
C5_Witness ==
    /\ OwnFreshTokenCall(response)
    /\ response.op = "decodeIssueRequestToken"
    /\ response.jwt.payload.iss = "orgB"
    /\ response.jwt.payload.data = "d2"
    /\ response.result.ok
    /\ response.result.value \in issueRequests

\* the row of that uuid in a store (uuids are unique in a store), or Null
RowOf(rows, u) ==
    IF \E r \in rows : r.uuid = u
      THEN CHOOSE r \in rows : r.uuid = u
      ELSE Null

\* C6: findRequestByRequestId("verify:" + u) returns the verify request
\* created with uuid u and findRequestByRequestId("issue:" + u) the issue
\* request created with uuid u; each returns not-found when the store of its
\* own tag has no row of uuid u, whatever the other store holds.
C6_TypeTagsNotInterchangeable ==
    response.op = "findRequestByRequestId" =>
        \A u \in UUIDs :
            /\ response.requestId = <<"verify", ":", u>> =>
                  response.result = Return(RowOf(verifyRequests, u))
            /\ response.requestId = <<"issue", ":", u>> =>
                  response.result = Return(RowOf(issueRequests, u))

\* with a verify request u and an issue request of another uuid stored,
\* "issue:" + u was looked up and not found
C6_Witness ==
    /\ response.op = "findRequestByRequestId"
    /\ \E u \in UUIDs :
          /\ response.requestId = <<"issue", ":", u>>
          /\ RowOf(verifyRequests, u) # Null
          /\ RowOf(issueRequests, u) = Null
          /\ issueRequests # {}
          /\ response.result.value = Null

LookupOps ==
    {"findRequestByRequestId", "findVerifyRequestByRequestId",
     "findIssueRequestByRequestId"}

\* the tags a lookup dispatches on
TagsOf(op) ==
    IF op = "findVerifyRequestByRequestId" THEN {<<"verify">>}
    ELSE IF op = "findIssueRequestByRequestId" THEN {<<"issue">>}
    ELSE {<<"verify">>, <<"issue">>}

HasDelimiter(id) == \E i \in 1..Len(id) : id[i] = ":"

FirstDelimiter(id) ==
    CHOOSE i \in 1..Len(id) : id[i] = ":" /\ \A j \in 1..(i - 1) : id[j] # ":"

\* the text before the first delimiter, the whole string when there is none
TagOf(id) ==
    IF HasDelimiter(id) THEN SubSeq(id, 1, FirstDelimiter(id) - 1) ELSE id

\* the text after the first delimiter
RestOf(id) == SubSeq(id, FirstDelimiter(id) + 1, Len(id))

StoreOf(tag) == IF tag = <<"verify">> THEN verifyRequests ELSE issueRequests

\* the requestIds for which a lookup has nothing to find
NothingToFind(op, id) ==
    \/ TagOf(id) \notin TagsOf(op)
    \/ ~HasDelimiter(id)
    \/ RestOf(id) = <<>>
    \/ /\ Len(RestOf(id)) = 1
       /\ RowOf(StoreOf(TagOf(id)), RestOf(id)[1]) = Null

SignatureInvalidCall(r) ==
    IsAccept(r) /\ NamesKnownIssuer(r.jwt) /\ ~SignedByIssuer(r.jwt)

\* the token names a known issuer, is signed by it and fails the age check
ExpiredCall(r) == AuthenticTokenCall(r) /\ Age(r) >= 300

\* what the caller of an accept operation gets to see
CallerVisible(r) ==
    <<r.result.ok, r.result.error, r.result.message, r.result.value>>

\* C8: a token that fails the signature check and a token that fails the
\* freshness check give the caller the same outcome, the InvalidRequestJWT
\* error with the same message, and both leave the stores as they were.
C8_SignatureAndExpiryIndistinguishable ==
    [][(SignatureInvalidCall(response') \/ ExpiredCall(response')) =>
          /\ CallerVisible(response') =
                <<FALSE, "InvalidRequestJWT", "Could not decode request JWT",
                  Null>>
          /\ StoresUnchanged]_vars

\* an expired token was rejected: the log names the expiry, the caller
\* sees the generic error
C8_Witness ==
    /\ ExpiredCall(response)
    /\ response.result.logged = "TokenExpiredError: maxAge exceeded"
    /\ RejectedAsInvalidJwt(response)

\* the token cannot be parsed or has no issuer
MalformedCall(r) ==
    IsAccept(r) /\ (~r.jwt.wellFormed \/ r.jwt.payload.iss = "")

\* the token parses and names an issuer no organization has
UnknownIssuerCall(r) ==
    IsAccept(r) /\ r.jwt.wellFormed /\ r.jwt.payload.iss # ""
                /\ ~NamesKnownIssuer(r.jwt)

UnknownTypeCall(r) ==
    AuthenticTokenCall(r) /\ Age(r) < 300 /\ ~DeclaresOwnType(r.jwt)

\* C10: a token that authenticates but declares a type name its issuer has
\* no CredentialType for is rejected with the not-found error of the type
\* lookup, which is not the error of authentication failures, and the call
\* persists no request.
C10_UnknownCredentialTypeRejected ==
    [][UnknownTypeCall(response') =>
          /\ ~response'.result.ok
          /\ response'.result.error = "EntityNotFound"
          /\ ~RejectedAsInvalidJwt(response')
          /\ StoresUnchanged]_vars

\* orgA declared "diploma", a type only orgB owns, and was rejected
C10_Witness ==
    /\ UnknownTypeCall(response)
    /\ response.jwt.payload.iss = "orgA"
    /\ response.jwt.payload.type = "diploma"
    /\ response.result.error = "EntityNotFound"

\* C14: every persisted request, issue or verify, references a credential
\* type owned by its requestor: type.organization = requestor.
C14_TypeOwnedByRequestor ==
    \A r \in verifyRequests \cup issueRequests :
        r.type.organization = r.requestor.uuid

\* requests of both organizations and of both kinds are stored
C14_Witness ==
    /\ \E r \in verifyRequests : r.requestor.uuid = "orgA"
    /\ \E r \in issueRequests : r.requestor.uuid = "orgB"

\* C15: the stores are append-only.  A successful accept adds exactly one
\* new row to the store of its kind and leaves the other store alone; no
\* other step (failed accept, lookup, connector dispatch, disclosure with
\* notification) changes a store, and no step changes or removes a row.
C15_StoresAppendOnly ==
    [][/\ verifyRequests \subseteq verifyRequests'
       /\ issueRequests \subseteq issueRequests'
       /\ (response'.op = "receiveCredentialVerifyRequest" /\ response'.result.ok)
             => /\ response'.result.value \notin verifyRequests
                /\ verifyRequests' =
                       verifyRequests \cup {response'.result.value}
                /\ issueRequests' = issueRequests
       /\ (response'.op = "decodeIssueRequestToken" /\ response'.result.ok)
             => /\ response'.result.value \notin issueRequests
                /\ issueRequests' =
                       issueRequests \cup {response'.result.value}
                /\ verifyRequests' = verifyRequests
       /\ ~(IsAccept(response') /\ response'.result.ok) => StoresUnchanged
      ]_vars

\* a verify request was accepted while an issue request of the same
\* organization was stored, and both rows are there
C15_Witness ==
    /\ response.op = "receiveCredentialVerifyRequest"
    /\ response.result.ok
    /\ response.result.value \in verifyRequests
    /\ \E r \in issueRequests :
          r.requestor = response.result.value.requestor

\* a disclosure call that returned normally
SuccessfulDisclosure(r) ==
    r.op = "handleCredentialVerifyDisclosure" /\ r.result.ok

\* C16: after a successful disclosure exactly one notification is sent; it
\* is addressed to the requestId of the request the call named, and its
\* redirect target is that request's stored callbackUrl followed by the
\* outcome token encoded for the same request and connector.
C16_NotificationCarriesCallbackUrl ==
    SuccessfulDisclosure(response) =>
        /\ Len(response.sent) = 1
        /\ \E row \in verifyRequests :
              /\ response.requestId = <<"verify", ":", row.uuid>>
              /\ response.verifyRequest = row
              /\ response.sent[1].requestId = <<"verify", ":", row.uuid>>
              /\ response.sent[1].status = "success"
              /\ response.sent[1].redirectUrl[1] = row.callbackUrl
              /\ response.sent[1].redirectUrl[2].requestId =
                     <<"verify", ":", row.uuid>>
              /\ response.sent[1].redirectUrl[2].connector = response.connector
              /\ response.sent[1].redirectUrl[2].status = "success"

\* with two requests of different callbackUrls stored, a disclosure for one
\* of them was notified
C16_Witness ==
    /\ SuccessfulDisclosure(response)
    /\ Len(response.sent) = 1
    /\ \E r \in verifyRequests :
          r.callbackUrl # response.verifyRequest.callbackUrl

\* C17: when acceptance of the token on GET /api/verify fails, the call
\* neither asks the registry for the available connectors nor gets any.
C17_NoConnectorOnFailedAuthentication ==
    (response.op = "receiveCredentialVerifyRequest" /\ ~response.result.ok)
        => /\ ~response.connectorsQueried
           /\ response.availableConnectors = <<>>

\* a forged token was rejected and no connector was asked for
C17_Witness ==
    /\ response.op = "receiveCredentialVerifyRequest"
    /\ SignatureInvalidCall(response)
    /\ RejectedAsInvalidJwt(response)
    /\ ~response.connectorsQueried

\* C18: for a stored verify uuid u and a non-empty suffix x, the lookup of
\* "verify:" + u + ":" + x takes u + ":" + x for the identifier and does not
\* resolve to the record with uuid u.
C18_SplitsOnFirstDelimiterOnly ==
    \A u \in UUIDs : \A x \in Segments \ {<<>>} :
        ( /\ response.op \in {"findRequestByRequestId",
                               "findVerifyRequestByRequestId"}
          /\ response.requestId = <<"verify", ":", u, ":">> \o x
          /\ RowOf(verifyRequests, u) # Null )
        => response.result.value # RowOf(verifyRequests, u)

\* C19: on every requestId, findRequestByRequestId answers what
\* findVerifyRequestByRequestId answers when the tag is "verify", what
\* findIssueRequestByRequestId answers when the tag is "issue", and not-found
\* under any other tag; the verify lookup returns only verify rows and the
\* issue lookup only issue rows, and each finds nothing under the other tag.
C19_ParsersAgree ==
    LET id == response.requestId IN
    /\ response.op = "findRequestByRequestId" =>
          /\ TagOf(id) = <<"verify">> =>
                response.result = findVerifyRequestByRequestId(id)
          /\ TagOf(id) = <<"issue">> =>
                response.result = findIssueRequestByRequestId(id)
          /\ TagOf(id) \notin {<<"verify">>, <<"issue">>} =>
                response.result = Return(Null)
    /\ response.op = "findVerifyRequestByRequestId" =>
          /\ response.result.value \in verifyRequests \cup {Null}
          /\ TagOf(id) # <<"verify">> => response.result = Return(Null)
          /\ TagOf(id) = <<"verify">> =>
                response.result = findRequestByRequestId(id)
    /\ response.op = "findIssueRequestByRequestId" =>
          /\ response.result.value \in issueRequests \cup {Null}
          /\ TagOf(id) # <<"issue">> => response.result = Return(Null)
          /\ TagOf(id) = <<"issue">> =>
                response.result = findRequestByRequestId(id)

\* a verify and an issue request share a uuid, and the lookup of the verify
\* requestId returned the verify row
C19_Witness ==
    /\ response.op = "findRequestByRequestId"
    /\ \E u \in UUIDs :
          /\ RowOf(verifyRequests, u) # Null
          /\ RowOf(issueRequests, u) # Null
          /\ response.requestId = <<"verify", ":", u>>
          /\ response.result.value = RowOf(verifyRequests, u)

\* C20: there is no replay protection.  A fresh valid verify token is
\* accepted whatever the store already holds, rows of the same token
\* included: each acceptance adds one more row, with a uuid no stored row
\* has and the requestor, type and callbackUrl of the token.
C20_NoReplayProtection ==
    [][(response'.op = "receiveCredentialVerifyRequest"
          /\ OwnFreshTokenCall(response'))
        => /\ response'.result.ok
           /\ LET row == response'.result.value
                  P   == response'.jwt.payload IN
              /\ \A r \in verifyRequests : r.uuid # row.uuid
              /\ verifyRequests' = verifyRequests \cup {row}
              /\ Cardinality(verifyRequests') = Cardinality(verifyRequests) + 1
              /\ row.requestor.uuid = P.iss
              /\ row.type = [organization |-> P.iss, type |-> P.type]
              /\ row.callbackUrl = P.callbackUrl
      ]_vars

\* the same token was accepted twice: two rows that differ in the uuid only
C20_Witness ==
    /\ response.op = "receiveCredentialVerifyRequest"
    /\ OwnFreshTokenCall(response)
    /\ response.result.ok
    /\ \E r \in verifyRequests :
          /\ r.uuid # response.result.value.uuid
          /\ r.requestor = response.result.value.requestor
          /\ r.type = response.result.value.type
          /\ r.callbackUrl = response.result.value.callbackUrl
    /\ Cardinality(verifyRequests) = 2

\* the call's token has a valid signature of the issuer it names and was
\* fresh when verify ran, and the call holds the verified payload and the
\* organization the verified issuer names
Verified(fl) ==
    /\ SignedByIssuer(fl.jwt)
    /\ fl.verifiedAt - fl.jwt.payload.iat < 300
    /\ fl.request = fl.jwt.payload
    /\ fl.requestor \in Organizations
    /\ fl.requestor.uuid = fl.jwt.payload.iss

\* what every call holds at each of its positions
NothingTrustedBeforeVerification ==
    \A f \in Flows :
        LET fl == flows[f] IN
        /\ fl.pc = "awaitOrganization" =>
              /\ fl.decoded = decode(fl.jwt)
              /\ fl.requestor = Null /\ fl.request = Null
              /\ fl.type = Null /\ fl.verifyRequest = Null
        /\ fl.pc = "awaitType" =>
              Verified(fl) /\ fl.type = Null /\ fl.verifyRequest = Null
        /\ fl.type # Null =>
              /\ Verified(fl)
              /\ fl.type = [organization |-> fl.request.iss,
                            type |-> fl.request.type]
        /\ fl.verifyRequest # Null =>
              /\ Verified(fl)
              /\ fl.verifyRequest.requestor = fl.requestor
              /\ fl.verifyRequest.callbackUrl = fl.request.callbackUrl
        /\ (fl.pc = "done" /\ fl.result.ok) => Verified(fl)

\* a row is persisted only by a call that is past verification
PersistedAfterVerification ==
    verifyRequests' # verifyRequests =>
        \E f \in Flows :
            /\ flows[f].pc = "awaitSave"
            /\ Verified(flows[f])
            /\ flows'[f].pc = "done"
            /\ verifyRequests' = verifyRequests \cup {flows'[f].result.value}
            /\ flows'[f].result.value.requestor = flows[f].requestor
            /\ flows'[f].result.value.callbackUrl =
                   flows[f].request.callbackUrl

\* C11: no token field is trusted before verification completes.  While a
\* call waits for the organization it holds only the decoded issuer hint;
\* it holds a requestor, a request, a type or a record only when its token
\* was verified, these are built from the verified payload, and a row is
\* persisted only by a call that is past verification.
C11_NothingTrustedBeforeVerification ==
    [][NothingTrustedBeforeVerification' /\ PersistedAfterVerification]_vars

\* one call has persisted its row while the other, holding a token signed
\* with the wrong secret, waits for the organization its issuer hint names
C11_Witness ==
    \E f, g \in Flows :
        /\ flows[f].pc = "done" /\ flows[f].result.ok
        /\ flows[f].result.value \in verifyRequests
        /\ flows[g].pc = "awaitOrganization"
        /\ ~SignedByIssuer(flows[g].jwt)

\* the positions of the disclosure call from which it has the record, the
\* connector's data, the outcome token
HasRecord == {"connector", "encode", "notify", "done"}
HasData   == {"encode", "notify", "done"}
HasToken  == {"notify", "done"}

\* C12: the disclosure call reaches the connector only with a record that
\* was created and that the lookup of its requestId returned, encodes the
\* outcome only with the data the connector returned, notifies only with
\* the encoded token, and sends no notification before that or for a
\* requestId whose record was not created and resolved.
C12_LifecycleOrdering ==
    /\ disclosure.pc \in HasRecord => disclosure.verifyRequest # Null
    /\ disclosure.verifyRequest # Null =>
          /\ disclosure.pc \in HasRecord \cup {"failed"}
          /\ disclosure.verifyRequest \in verifyRequests
          /\ disclosure.requestId = requestId("verify", disclosure.verifyRequest)
    /\ disclosure.pc \in HasData <=> disclosure.data # Null
    /\ disclosure.pc \in HasData => disclosure.data.ok
    /\ disclosure.pc \in HasToken <=> disclosure.token # Null
    /\ disclosure.pc \in HasToken =>
          disclosure.token =
              encodeVerifyRequestResponse(disclosure.verifyRequest, "success",
                                          disclosure.connector,
                                          disclosure.data.value)
    /\ disclosure.pc = "done" <=> disclosure.sent # <<>>
    /\ disclosure.pc = "done" =>
          /\ Len(disclosure.sent) = 1
          /\ disclosure.sent[1].requestId = disclosure.requestId
          /\ disclosure.sent[1].redirectUrl[2] = disclosure.token

\* a disclosure ran through lookup, connector, encoding and notification
C12_Witness ==
    /\ disclosure.pc = "done"
    /\ disclosure.sent # <<>>
    /\ disclosure.verifyRequest \in verifyRequests
    /\ Cardinality(verifyRequests) = 2

\* C13: in every interleaving of concurrent decodeVerifyRequestToken calls
\* the record a call builds and the row it persists carry the organization
\* its own token names and that organization's type of the name its own
\* token declares.
C13_NoCrossAssignment ==
    \A f \in Flows :
        LET fl  == flows[f]
            own == [requestor |-> fl.jwt.payload.iss,
                    type |-> [organization |-> fl.jwt.payload.iss,
                              type |-> fl.jwt.payload.type]] IN
        /\ fl.pc = "awaitSave" =>
              /\ fl.verifyRequest.requestor.uuid = own.requestor
              /\ fl.verifyRequest.type = own.type
        /\ (fl.pc = "done" /\ fl.result.ok) =>
              /\ fl.result.value \in verifyRequests
              /\ fl.result.value.requestor.uuid = own.requestor
              /\ fl.result.value.type = own.type

\* the call for orgA has persisted its row while the call for orgB is
\* between its type lookup and its save
C13_Witness ==
    \E f, g \in Flows :
        /\ flows[f].pc = "done" /\ flows[f].result.ok
        /\ flows[f].jwt.payload.iss = "orgA"
        /\ flows[g].pc = "awaitSave"
        /\ flows[g].jwt.payload.iss = "orgB"

====
